---------------------------- MODULE Spec2Model ----------------------------
(*************************************************************************)
(* Furniture fit checker: the placement state, the obstacle registry and *)
(* the fit evaluation of the eight viewer components.                    *)
(*                                                                       *)
(* One viewer is mounted per behaviour (viewer, chosen in Init) until   *)
(* the parent unmounts it.  Its                                          *)
(* props (selectedFurniture, roomDimensions) and its React state         *)
(* (furnitureScale, furniturePosition, fits, detectedRegions,            *)
(* isAnalyzing) are the variables.  A verdict computed during render     *)
(* (const fits = checkFit()) is an operator over the current state; only *)
(* the 3-D ARViewer keeps its verdict in state.                          *)
(*                                                                       *)
(* Numbers.  Lengths are integers (cm or px).  A scale is an integer     *)
(* count of 1/ScaleUnit, and a product prev * 1.2 is rounded as a        *)
(* two-digit decimal floating-point number (TimesTenths).  Rectangle     *)
(* edges x -+ w*scale/2 are compared after multiplying both sides by     *)
(* 2*ScaleUnit, so no division is made in a comparison.                  *)
(*************************************************************************)
EXTENDS Integers, Sequences, FiniteSets, TLC

VARIABLES
    viewer,             \* the mounted component
    mounted,            \* the parent still renders the viewer
    selectedFurniture,  \* prop: a furniture item or Null
    roomDimensions,     \* prop of the room viewers
    permission,         \* camera permission granted: camera, overlay and controls shown
    furnitureScale,     \* useState: scale, in 1/ScaleUnit
    furniturePosition,  \* useState: [x, y] (screen) or [x, y, z] (3-D, in steps)
    isPlaced,           \* useState of SmartARViewer and ImageARViewer
    fits,               \* useState of ARViewer only
    detectedRegions,    \* useState: obstacleZones / detectedObjects / detectedRegions
    modelReady,         \* useState of AIARViewer
    isAnalyzing,        \* useState: isAnalyzing / isDetecting, the latest value set
    seenAnalyzing,      \* the isAnalyzing of the last render: what the callbacks closed over
    inFlight,           \* refreshes started and awaiting their capture
    intervals,          \* ids of the setInterval timers that are active
    intervalRef,        \* id the last run of the scan effect got from setInterval, 0 if none
    showAR,             \* useState of App: the viewer is shown instead of the selector
    furnitureImage,     \* useState of App: uri of the custom item's image, Undefined if none
    uploadedImage,      \* useState of FurnitureSelector: uri of the picked image, or NoImage
    customDimensions,   \* useState of FurnitureSelector: the texts of the three inputs
    mountFits,          \* the verdict of the first render, which the pan responder closed over
    alertShown          \* the last release of a drag showed the obstacle alert

vars == <<viewer, mounted, selectedFurniture, roomDimensions, permission, furnitureScale,
          furniturePosition, isPlaced, fits, detectedRegions, modelReady, isAnalyzing,
          seenAnalyzing, inFlight, intervals, intervalRef, showAR, furnitureImage,
          uploadedImage, customDimensions, mountFits, alertShown>>

\* What App and the selector hold, what the parent decides, what a gesture changes,
\* what a refresh changes.
appVars       == <<showAR, furnitureImage, uploadedImage, customDimensions>>
releaseVars   == <<mountFits, alertShown>>
propVars      == <<viewer, mounted, selectedFurniture, roomDimensions, appVars, releaseVars>>
placementVars == <<furnitureScale, furniturePosition, isPlaced>>
timerVars     == <<intervals, intervalRef>>
refreshVars   == <<detectedRegions, modelReady, isAnalyzing, seenAnalyzing, inFlight,
                   intervals, intervalRef>>

-----------------------------------------------------------------------------
(* Bounds of the model *)

\* Pointer coordinates of a drag: GridX + 1 columns and GridY + 1 rows over the screen.
GridX == 2
GridY == 4

\* 3-D positions explored, in steps: |x| <= MaxSide, y <= MaxSide, |z| <= MaxDepth.
MaxSide  == 2
MaxDepth == 11

\* Refreshes that may await their capture at once.
MaxInFlight == 2

\* Interval timers that may be active at once.
MaxIntervals == 2

\* Values d of Math.random() = d / 100; every call of one detection cycle returns the
\* same one.
Draws == {20, 80}

-----------------------------------------------------------------------------
(* The components *)

RoomViewers    == {"SimpleARViewer", "CameraARViewer"}
ScreenViewers  == {"SmartARViewer", "ImageARViewer", "AIARViewer",
                   "RealTimeARViewer", "CloudVisionARViewer"}
Viewers        == {"ARViewer"} \cup RoomViewers \cup ScreenViewers

-----------------------------------------------------------------------------
(* Furniture items and rooms *)

Null == [id |-> "null", width |-> 0, height |-> 0, depth |-> 0]

furniturePresets ==
    << [id |-> "sofa-1",  width |-> 200, height |-> 85,  depth |-> 90],
       [id |-> "table-1", width |-> 160, height |-> 75,  depth |-> 90],
       [id |-> "shelf-1", width |-> 80,  height |-> 180, depth |-> 35],
       [id |-> "sofa-2",  width |-> 150, height |-> 85,  depth |-> 90],
       [id |-> "table-2", width |-> 120, height |-> 45,  depth |-> 60] >>

\* The items a parent hands to a viewer in this model.
Items == { furniturePresets[1], furniturePresets[2] }

\* roomDimensions props tried: the boundary rooms of a 200 x 90 item, and the
\* 160 x 240 x 100 room of the scenario.
Rooms ==
    { [width |-> 200, height |-> 240, depth |-> 90],
      [width |-> 199, height |-> 240, depth |-> 90],
      [width |-> 160, height |-> 240, depth |-> 100] }

NoRoom == [width |-> 0, height |-> 0, depth |-> 0]

\* App's furnitureImage when no image goes with the item, the selector's uploadedImage
\* before a pick, and the uris the image library can return.
Undefined == "undefined"
NoImage   == "null"
ImageUris == {"file:///photo-1.jpg", "file:///photo-2.jpg"}

\* A text is the sequence of its characters.  The texts typed into a dimension input:
\* '', '0', '50', '100', '-5', 'abc', '12a', 'a1'.
Fields  == {"width", "height", "depth"}
Entries == { << >>, <<"0">>, <<"5", "0">>, <<"1", "0", "0">>, <<"-", "5">>,
             <<"a", "b", "c">>, <<"1", "2", "a">>, <<"a", "1">> }

initialDimensions ==
    [width |-> <<"1", "0", "0">>, height |-> <<"1", "0", "0">>, depth |-> <<"5", "0">>]

-----------------------------------------------------------------------------
(* Numbers *)

\* A scale s stands for s / ScaleUnit; a scaled size width * s for width * s / ScaleUnit.
ScaleUnit == 100

\* A confidence c stands for c / ConfUnit; Math.random() returns d / 100 for a draw d.
ConfUnit == 10000

\* Dimensions.get('window'): the viewport of the device.
screenWidth  == 400
screenHeight == 800

Min(a, b) == IF a <= b THEN a ELSE b
Max(a, b) == IF a >= b THEN a ELSE b

\* The product prev * (tenths / 10) of a scale and a factor 0.8 .. 1.2, as a decimal
\* floating-point number of two significant digits: rounded to the nearest 0.01 below
\* 1.0 and to the nearest 0.1 from 1.0 on.
TimesTenths(prev, tenths) ==
    LET exact == prev * tenths
    IN  IF exact < 10 * ScaleUnit
        THEN (exact + 5) \div 10
        ELSE ((exact + 50) \div 100) * 10

\* A pixel length in the unit rectangle edges are compared in: 1 / (2 * ScaleUnit) px,
\* so that x - furnitureW / 2 is the integer Px(x) - furnitureW.
Px(len) == 2 * ScaleUnit * len

\* The smallest element of a non-empty set of indices: the first hit of a for loop.
First(S) == CHOOSE i \in S : \A j \in S : i <= j

NoReason == [text |-> "", object |-> "", percent |-> 0]

-----------------------------------------------------------------------------
(* The overlap test every checkCollision makes.  f is the furniture rect *)
(* [left, right, top, bottom], z the region rect, both in Px units.      *)

furnitureEdges(furnitureX, furnitureY, furnitureW, furnitureH) ==
    [left   |-> Px(furnitureX) - furnitureW,
     right  |-> Px(furnitureX) + furnitureW,
     top    |-> Px(furnitureY) - furnitureH,
     bottom |-> Px(furnitureY) + furnitureH]

boxEdges(x, y, width, height) ==
    [left |-> Px(x), right |-> Px(x + width), top |-> Px(y), bottom |-> Px(y + height)]

\* The overlap test with the left side of the region closed: an item whose right edge
\* is on the region's left edge is apart from it.
overlaps_leftClosed(f, z) ==
    ~ (f.right <= z.left \/ f.left > z.right \/ f.bottom < z.top \/ f.top > z.bottom)

overlaps(f, z) ==
    ~ (f.right < z.left \/ f.left > z.right \/ f.bottom < z.top \/ f.top > z.bottom)

-----------------------------------------------------------------------------
(* ARViewer (3-D).  A position is [x, y, z] in steps of 0.2 m; lengths   *)
(* are compared in half centimetres (1/200 m), so a step is 40.          *)

AR_initialPosition == [x |-> 0, y |-> 0, z |-> -10]

getRoomBounds(room) ==
    [minX |-> - room.width, maxX |-> room.width,
     minY |-> 0,            maxY |-> 2 * room.height,
     minZ |-> - room.depth, maxZ |-> room.depth]

checkFit(furnitureModel, position, room) ==
    LET bounds     == getRoomBounds(room)
        halfWidth  == furnitureModel.width
        halfHeight == furnitureModel.height
        halfDepth  == furnitureModel.depth
    IN  /\ 40 * position.x - halfWidth >= bounds.minX
        /\ 40 * position.x + halfWidth <= bounds.maxX
        /\ 40 * position.y >= bounds.minY
        /\ 40 * position.y + halfHeight <= bounds.maxY
        /\ 40 * position.z - halfDepth >= bounds.minZ
        /\ 40 * position.z + halfDepth <= bounds.maxZ

AR_moved(prev, direction) ==
    CASE direction = "left"     -> [prev EXCEPT !.x = prev.x - 1]
      [] direction = "right"    -> [prev EXCEPT !.x = prev.x + 1]
      [] direction = "forward"  -> [prev EXCEPT !.z = prev.z - 1]
      [] direction = "backward" -> [prev EXCEPT !.z = prev.z + 1]
      [] direction = "up"       -> [prev EXCEPT !.y = prev.y + 1]
      [] direction = "down"     -> [prev EXCEPT !.y = Max(0, prev.y - 1)]

\* The effect on [furniturePosition, selectedFurniture, roomDimensions]: the fits
\* state is written only while an item is selected.
AR_fitEffect(sel, position, room, oldFits) ==
    IF sel # Null THEN checkFit(sel, position, room) ELSE oldFits

-----------------------------------------------------------------------------
(* SimpleARViewer and CameraARViewer: the room-dimension check *)

Simple_initialScale    == ScaleUnit
Simple_initialPosition == [x |-> 50, y |-> 50]

\* Simple_checkFit that also wants the item, centered at its position (in percent
\* of the room), to stay inside the room's width.
Simple_checkFit_atPosition(sel, scale, room) ==
    IF sel = Null THEN TRUE
    ELSE LET scaledWidth == sel.width * scale
             scaledDepth == sel.depth * scale
             centerX     == 2 * furniturePosition.x * room.width * ScaleUnit
         IN  /\ scaledWidth <= room.width * ScaleUnit /\ scaledDepth <= room.depth * ScaleUnit
             /\ centerX - 100 * scaledWidth >= 0
             /\ centerX + 100 * scaledWidth <= 200 * room.width * ScaleUnit

Simple_checkFit(sel, scale, room) ==
    IF sel = Null THEN TRUE
    ELSE LET scaledWidth == sel.width * scale
             scaledDepth == sel.depth * scale
         IN  scaledWidth <= room.width * ScaleUnit /\ scaledDepth <= room.depth * ScaleUnit

Simple_moved(prev, direction) ==
    CASE direction = "left"  -> [prev EXCEPT !.x = Max(0, prev.x - 10)]
      [] direction = "right" -> [prev EXCEPT !.x = Min(100, prev.x + 10)]
      [] direction = "up"    -> [prev EXCEPT !.y = Max(0, prev.y - 10)]
      [] direction = "down"  -> [prev EXCEPT !.y = Min(100, prev.y + 10)]

Simple_adjustScale(prev, increase) ==
    LET newScale == IF increase THEN TimesTenths(prev, 11) ELSE TimesTenths(prev, 9)
    IN  Max(ScaleUnit \div 10, Min(3 * ScaleUnit, newScale))

Camera_initialScale    == ScaleUnit
Camera_initialPosition == [x |-> 50, y |-> 50]

\* Camera_checkFit with strict comparisons: an item as large as the room does not fit.
Camera_checkFit_strict(sel, scale, room) ==
    IF sel = Null THEN TRUE
    ELSE LET scaledWidth == sel.width * scale
             scaledDepth == sel.depth * scale
         IN  scaledWidth < room.width * ScaleUnit /\ scaledDepth < room.depth * ScaleUnit

Camera_checkFit(sel, scale, room) ==
    IF sel = Null THEN TRUE
    ELSE LET scaledWidth == sel.width * scale
             scaledDepth == sel.depth * scale
         IN  scaledWidth <= room.width * ScaleUnit /\ scaledDepth <= room.depth * ScaleUnit

Camera_moved(prev, direction) ==
    CASE direction = "left"  -> [prev EXCEPT !.x = Max(0, prev.x - 10)]
      [] direction = "right" -> [prev EXCEPT !.x = Min(100, prev.x + 10)]
      [] direction = "up"    -> [prev EXCEPT !.y = Max(0, prev.y - 10)]
      [] direction = "down"  -> [prev EXCEPT !.y = Min(100, prev.y + 10)]

Camera_adjustScale(prev, increase) ==
    LET newScale == IF increase THEN TimesTenths(prev, 11) ELSE TimesTenths(prev, 9)
    IN  Max(ScaleUnit \div 10, Min(3 * ScaleUnit, newScale))

-----------------------------------------------------------------------------
(* SmartARViewer: one fixed obstacle zone, a boolean verdict *)

Smart_initialScale    == (3 * ScaleUnit) \div 10
Smart_initialPosition == [x |-> screenWidth \div 2, y |-> screenHeight \div 2]
Smart_resetPosition   == [x |-> screenWidth \div 2, y |-> (screenHeight * 7) \div 10]
Smart_resetScale      == (3 * ScaleUnit) \div 10

\* The zones the mount effect sets.
Smart_zones ==
    << [x     |-> (screenWidth * 35) \div 100, y      |-> (screenHeight * 2) \div 10,
        width |-> (screenWidth * 3) \div 10,   height |-> (screenHeight * 25) \div 100] >>

Smart_checkCollision(obstacleZones, furnitureX, furnitureY, furnitureW, furnitureH) ==
    \E i \in 1..Len(obstacleZones) :
        LET zone == obstacleZones[i]
        IN  overlaps(furnitureEdges(furnitureX, furnitureY, furnitureW, furnitureH),
                     boxEdges(zone.x, zone.y, zone.width, zone.height))

Smart_checkFit(sel, scale, position, obstacleZones) ==
    IF sel = Null THEN TRUE
    ELSE LET furnitureWidth  == sel.width * scale
             furnitureHeight == sel.height * scale
             hasCollision    == Smart_checkCollision(obstacleZones, position.x, position.y,
                                                     furnitureWidth, furnitureHeight)
             withinBounds    ==
                 /\ Px(position.x) > furnitureWidth
                 /\ Px(position.x) < Px(screenWidth) - furnitureWidth
                 /\ Px(position.y) > furnitureHeight
                 /\ Px(position.y) < Px(screenHeight) - furnitureHeight
             reasonableSize  ==
                 /\ 10 * furnitureWidth < 6 * screenWidth * ScaleUnit
                 /\ 10 * furnitureHeight < 4 * screenHeight * ScaleUnit
         IN  ~hasCollision /\ withinBounds /\ reasonableSize

Smart_adjustScale(prev, increase) ==
    LET newScale == IF increase THEN TimesTenths(prev, 12) ELSE TimesTenths(prev, 8)
    IN  Max(ScaleUnit \div 10, Min((15 * ScaleUnit) \div 10, newScale))

-----------------------------------------------------------------------------
(* ImageARViewer: fixed margins, no obstacles, a boolean verdict *)

Image_initialScale    == (5 * ScaleUnit) \div 10
Image_initialPosition == [x |-> screenWidth \div 2, y |-> screenHeight \div 2]
Image_resetPosition   == [x |-> screenWidth \div 2, y |-> screenHeight \div 2]
Image_resetScale      == (5 * ScaleUnit) \div 10

\* useState(true), never set.
Image_spaceDetected == TRUE

Image_checkFit(sel, scale, position) ==
    IF sel = Null THEN TRUE
    ELSE LET furnitureWidth  == sel.width * scale
             furnitureHeight == sel.height * scale
             withinBounds    ==
                 /\ position.x > 50
                 /\ position.x < screenWidth - 50
                 /\ position.y > 100
                 /\ position.y < screenHeight - 200
             reasonableSize  ==
                 /\ 10 * furnitureWidth < 8 * screenWidth * ScaleUnit
                 /\ 10 * furnitureHeight < 5 * screenHeight * ScaleUnit
         IN  withinBounds /\ reasonableSize /\ Image_spaceDetected

\* Image_adjustScale with the ceiling of SimpleARViewer, 3 for 2.
Image_adjustScale_ceiling3(prev, increase) ==
    LET newScale == IF increase THEN TimesTenths(prev, 12) ELSE TimesTenths(prev, 8)
    IN  Max(ScaleUnit \div 10, Min(3 * ScaleUnit, newScale))

Image_adjustScale(prev, increase) ==
    LET newScale == IF increase THEN TimesTenths(prev, 12) ELSE TimesTenths(prev, 8)
    IN  Max(ScaleUnit \div 10, Min(2 * ScaleUnit, newScale))

-----------------------------------------------------------------------------
(* AIARViewer: detected objects [class, bbox = <<x, y, width, height>>] *)

AI_initialScale    == (4 * ScaleUnit) \div 10
AI_initialPosition == [x |-> screenWidth \div 2, y |-> (screenHeight * 7) \div 10]
AI_resetPosition   == [x |-> screenWidth \div 2, y |-> (screenHeight * 7) \div 10]
AI_resetScale      == (4 * ScaleUnit) \div 10

AI_simulateObjectDetection ==
    << [class |-> "person",
        bbox  |-> << (screenWidth * 2) \div 10, (screenHeight * 2) \div 10,
                     (screenWidth * 6) \div 10, (screenHeight * 5) \div 10 >>] >>

AI_checkCollision(detectedObjects, furnitureX, furnitureY, furnitureW, furnitureH) ==
    LET hits == { i \in 1..Len(detectedObjects) :
                    LET obj == detectedObjects[i]
                    IN  overlaps(furnitureEdges(furnitureX, furnitureY, furnitureW, furnitureH),
                                 boxEdges(obj.bbox[1], obj.bbox[2], obj.bbox[3], obj.bbox[4])) }
    IN  IF hits # {}
        THEN [collision |-> TRUE, objectType |-> detectedObjects[First(hits)].class]
        ELSE [collision |-> FALSE, objectType |-> ""]

\* AI_checkFit with the bounds test ahead of the collision test.
AI_checkFit_boundsFirst(sel, scale, position, detectedObjects) ==
    IF sel = Null THEN [fits |-> TRUE, reason |-> NoReason]
    ELSE LET furnitureWidth  == sel.width * scale
             furnitureHeight == sel.height * scale
             collisionResult == AI_checkCollision(detectedObjects, position.x, position.y,
                                                  furnitureWidth, furnitureHeight)
             withinBounds    ==
                 /\ Px(position.x) > furnitureWidth
                 /\ Px(position.x) < Px(screenWidth) - furnitureWidth
                 /\ Px(position.y) > furnitureHeight
                 /\ Px(position.y) < Px(screenHeight) - furnitureHeight
         IN  IF ~withinBounds
             THEN [fits |-> FALSE, reason |-> [text |-> "Out of bounds", object |-> "", percent |-> 0]]
             ELSE IF collisionResult.collision
             THEN [fits   |-> FALSE,
                   reason |-> [text |-> "Blocked by", object |-> collisionResult.objectType,
                               percent |-> 0]]
             ELSE [fits |-> TRUE,
                   reason |-> [text |-> "Clear space detected", object |-> "", percent |-> 0]]

AI_checkFit(sel, scale, position, detectedObjects) ==
    IF sel = Null THEN [fits |-> TRUE, reason |-> NoReason]
    ELSE LET furnitureWidth  == sel.width * scale
             furnitureHeight == sel.height * scale
             collisionResult == AI_checkCollision(detectedObjects, position.x, position.y,
                                                  furnitureWidth, furnitureHeight)
             withinBounds    ==
                 /\ Px(position.x) > furnitureWidth
                 /\ Px(position.x) < Px(screenWidth) - furnitureWidth
                 /\ Px(position.y) > furnitureHeight
                 /\ Px(position.y) < Px(screenHeight) - furnitureHeight
         IN  IF collisionResult.collision
             THEN [fits   |-> FALSE,
                   reason |-> [text |-> "Blocked by", object |-> collisionResult.objectType,
                               percent |-> 0]]
             ELSE IF ~withinBounds
             THEN [fits |-> FALSE, reason |-> [text |-> "Out of bounds", object |-> "", percent |-> 0]]
             ELSE [fits |-> TRUE,
                   reason |-> [text |-> "Clear space detected", object |-> "", percent |-> 0]]

\* AI_adjustScale without the Math.max(0.1, ...) floor.
AI_adjustScale_noFloor(prev, increase) ==
    LET newScale == IF increase THEN TimesTenths(prev, 12) ELSE TimesTenths(prev, 8)
    IN  Min((15 * ScaleUnit) \div 10, newScale)

AI_adjustScale(prev, increase) ==
    LET newScale == IF increase THEN TimesTenths(prev, 12) ELSE TimesTenths(prev, 8)
    IN  Max(ScaleUnit \div 10, Min((15 * ScaleUnit) \div 10, newScale))

-----------------------------------------------------------------------------
(* RealTimeARViewer: regions [x, y, width, height, type, confidence] *)

RealTime_initialScale    == (4 * ScaleUnit) \div 10
RealTime_initialPosition == [x |-> screenWidth \div 2, y |-> (screenHeight * 7) \div 10]
RealTime_resetPosition   == [x |-> screenWidth \div 2, y |-> (screenHeight * 7) \div 10]
RealTime_resetScale      == (4 * ScaleUnit) \div 10

\* The regions performSimpleDetection sets.
RealTime_simpleRegions ==
    << [x     |-> (screenWidth * 25) \div 100, y      |-> (screenHeight * 25) \div 100,
        width |-> (screenWidth * 5) \div 10,   height |-> (screenHeight * 4) \div 10,
        type  |-> "obstacle", confidence |-> (6 * ConfUnit) \div 10],
       [x     |-> 0,           y      |-> (screenHeight * 7) \div 10,
        width |-> screenWidth, height |-> (screenHeight * 3) \div 10,
        type  |-> "clear", confidence |-> (8 * ConfUnit) \div 10] >>

\* The cells of the 4 x 4 grid in the order of the two loops, as <<row, col>>.
RealTime_cells == [k \in 1..16 |-> << (k - 1) \div 4, (k - 1) % 4 >>]

\* One cell's contribution; random is the value d of Math.random() = d / 100.
RealTime_cellRegions(cell, random) ==
    LET gridSize       == 4
        cellWidth      == screenWidth \div gridSize
        cellHeight     == screenHeight \div gridSize
        row            == cell[1]
        col            == cell[2]
        isCenterRegion == (row = 1 \/ row = 2) /\ (col = 1 \/ col = 2)
        isBottomRegion == row = 3
    IN  IF isCenterRegion
        THEN IF random > 30
             THEN << [x |-> col * cellWidth, y |-> row * cellHeight,
                      width |-> cellWidth, height |-> cellHeight, type |-> "obstacle",
                      confidence |-> (7 * ConfUnit) \div 10 + (random * 3 * ConfUnit) \div 1000] >>
             ELSE << >>
        ELSE IF isBottomRegion
        THEN << [x |-> col * cellWidth, y |-> row * cellHeight,
                 width |-> cellWidth, height |-> cellHeight, type |-> "clear",
                 confidence |-> (8 * ConfUnit) \div 10] >>
        ELSE << >>

RECURSIVE RealTime_cellsFrom(_, _)
RealTime_cellsFrom(k, random) ==
    IF k > 16 THEN << >>
    ELSE RealTime_cellRegions(RealTime_cells[k], random) \o RealTime_cellsFrom(k + 1, random)

RealTime_detectObstaclesInImage(random) == RealTime_cellsFrom(1, random)

\* RealTime_checkCollision without the skip of the regions of type 'clear'.
RealTime_checkCollision_noSkip(regions, furnitureX, furnitureY, furnitureW, furnitureH) ==
    LET hits == { i \in 1..Len(regions) :
                    LET region == regions[i]
                    IN  /\ overlaps(furnitureEdges(furnitureX, furnitureY, furnitureW, furnitureH),
                                    boxEdges(region.x, region.y, region.width, region.height))
                        /\ 10 * region.confidence > 5 * ConfUnit }
    IN  IF hits # {}
        THEN [collision |-> TRUE, confidence |-> regions[First(hits)].confidence]
        ELSE [collision |-> FALSE, confidence |-> 0]

RealTime_checkCollision(regions, furnitureX, furnitureY, furnitureW, furnitureH) ==
    LET hits == { i \in 1..Len(regions) :
                    LET region == regions[i]
                    IN  /\ region.type # "clear"
                        /\ overlaps(furnitureEdges(furnitureX, furnitureY, furnitureW, furnitureH),
                                    boxEdges(region.x, region.y, region.width, region.height))
                        /\ 10 * region.confidence > 5 * ConfUnit }
    IN  IF hits # {}
        THEN [collision |-> TRUE, confidence |-> regions[First(hits)].confidence]
        ELSE [collision |-> FALSE, confidence |-> 0]

\* Math.round(confidence * 100)
Percent(confidence) == (confidence * 100 + ConfUnit \div 2) \div ConfUnit

RealTime_checkFit(sel, scale, position, regions) ==
    IF sel = Null THEN [fits |-> TRUE, reason |-> NoReason]
    ELSE LET furnitureWidth  == sel.width * scale
             furnitureHeight == sel.height * scale
             collisionResult == RealTime_checkCollision(regions, position.x, position.y,
                                                        furnitureWidth, furnitureHeight)
             inClearZone     ==
                 \E i \in 1..Len(regions) :
                     LET region == regions[i]
                     IN  /\ region.type = "clear"
                         /\ position.x >= region.x
                         /\ position.x <= region.x + region.width
                         /\ position.y >= region.y
                         /\ position.y <= region.y + region.height
         IN  IF collisionResult.collision
             THEN [fits   |-> FALSE,
                   reason |-> [text |-> "Obstacle detected", object |-> "",
                               percent |-> Percent(collisionResult.confidence)]]
             ELSE IF inClearZone
             THEN [fits   |-> TRUE,
                   reason |-> [text |-> "Clear floor space detected", object |-> "", percent |-> 0]]
             ELSE [fits   |-> TRUE,
                   reason |-> [text |-> "Space appears clear", object |-> "", percent |-> 0]]

RealTime_adjustScale(prev, increase) ==
    LET newScale == IF increase THEN TimesTenths(prev, 12) ELSE TimesTenths(prev, 8)
    IN  Max(ScaleUnit \div 10, Min((15 * ScaleUnit) \div 10, newScale))

-----------------------------------------------------------------------------
(* CloudVisionARViewer: objects [label, confidence, boundingBox]         *)
(* The detail string of its verdict is the percentage of the reason here *)

Cloud_initialScale    == (4 * ScaleUnit) \div 10
Cloud_initialPosition == [x |-> screenWidth \div 2, y |-> (screenHeight * 7) \div 10]
Cloud_resetPosition   == [x |-> screenWidth \div 2, y |-> (screenHeight * 75) \div 100]
Cloud_resetScale      == (4 * ScaleUnit) \div 10

\* random is the value d of Math.random() = d / 100.
Cloud_simulateObjectDetection(random) ==
    LET person ==
            IF random > 30
            THEN << [label       |-> "person",
                     confidence  |-> (85 * ConfUnit) \div 100 + (random * 15 * ConfUnit) \div 10000,
                     boundingBox |->
                        [x      |-> (screenWidth * (200 + random * 2)) \div 1000,
                         y      |-> (screenHeight * (150 + random)) \div 1000,
                         width  |-> (screenWidth * (300 + random * 2)) \div 1000,
                         height |-> (screenHeight * (400 + random)) \div 1000]] >>
            ELSE << >>
        chair ==
            IF random > 50
            THEN << [label       |-> "chair",
                     confidence  |-> (7 * ConfUnit) \div 10 + (random * 2 * ConfUnit) \div 1000,
                     boundingBox |->
                        [x      |-> (screenWidth * (600 + random * 2)) \div 1000,
                         y      |-> (screenHeight * (400 + random)) \div 1000,
                         width  |-> (screenWidth * 2) \div 10,
                         height |-> (screenHeight * 25) \div 100]] >>
            ELSE << >>
        floor ==
            << [label       |-> "floor",
                confidence  |-> (95 * ConfUnit) \div 100,
                boundingBox |->
                   [x |-> 0, y |-> (screenHeight * 75) \div 100,
                    width |-> screenWidth, height |-> (screenHeight * 25) \div 100]] >>
    IN  person \o chair \o floor

Cloud_checkCollision(detectedObjects, furnitureX, furnitureY, furnitureW, furnitureH) ==
    LET hits   == { i \in 1..Len(detectedObjects) :
                      LET obj == detectedObjects[i]
                          box == obj.boundingBox
                      IN  /\ obj.label # "floor"
                          /\ overlaps(furnitureEdges(furnitureX, furnitureY, furnitureW, furnitureH),
                                      boxEdges(box.x, box.y, box.width, box.height)) }
        floors == { i \in 1..Len(detectedObjects) : detectedObjects[i].label = "floor" }
    IN  IF hits # {}
        THEN [collision  |-> TRUE, object |-> detectedObjects[First(hits)].label,
              confidence |-> detectedObjects[First(hits)].confidence]
        ELSE IF /\ floors # {}
                /\ LET box == detectedObjects[First(floors)].boundingBox
                   IN  furnitureY >= box.y /\ furnitureY <= box.y + box.height
        THEN [collision |-> FALSE, object |-> "floor", confidence |-> ConfUnit]
        ELSE [collision |-> FALSE, object |-> "", confidence |-> 0]

Cloud_checkFit(sel, scale, position, detectedObjects) ==
    IF sel = Null THEN [fits |-> TRUE, reason |-> NoReason]
    ELSE LET furnitureWidth  == sel.width * scale
             furnitureHeight == sel.height * scale
             collisionResult == Cloud_checkCollision(detectedObjects, position.x, position.y,
                                                     furnitureWidth, furnitureHeight)
         IN  IF collisionResult.collision
             THEN [fits   |-> FALSE,
                   reason |-> [text |-> "Blocked by", object |-> collisionResult.object,
                               percent |-> Percent(collisionResult.confidence)]]
             ELSE IF collisionResult.object = "floor"
             THEN [fits   |-> TRUE,
                   reason |-> [text |-> "Clear floor space", object |-> "", percent |-> 0]]
             ELSE [fits   |-> TRUE,
                   reason |-> [text |-> "Space appears clear", object |-> "", percent |-> 0]]

Cloud_adjustScale(prev, increase) ==
    LET newScale == IF increase THEN TimesTenths(prev, 12) ELSE TimesTenths(prev, 8)
    IN  Max(ScaleUnit \div 10, Min((15 * ScaleUnit) \div 10, newScale))

-----------------------------------------------------------------------------
(* Per-component tables *)

ScaleViewers == Viewers \ {"ARViewer"}
ResetViewers == ScreenViewers
RegionViewers == {"SmartARViewer", "AIARViewer", "RealTimeARViewer", "CloudVisionARViewer"}
ReasonViewers == {"AIARViewer", "RealTimeARViewer", "CloudVisionARViewer"}

initialScale(v) ==
    CASE v = "SimpleARViewer"      -> Simple_initialScale
      [] v = "CameraARViewer"      -> Camera_initialScale
      [] v = "SmartARViewer"       -> Smart_initialScale
      [] v = "ImageARViewer"       -> Image_initialScale
      [] v = "AIARViewer"          -> AI_initialScale
      [] v = "RealTimeARViewer"    -> RealTime_initialScale
      [] v = "CloudVisionARViewer" -> Cloud_initialScale
      [] OTHER                     -> ScaleUnit

initialPosition(v) ==
    CASE v = "ARViewer"            -> AR_initialPosition
      [] v = "SimpleARViewer"      -> Simple_initialPosition
      [] v = "CameraARViewer"      -> Camera_initialPosition
      [] v = "SmartARViewer"       -> Smart_initialPosition
      [] v = "ImageARViewer"       -> Image_initialPosition
      [] v = "AIARViewer"          -> AI_initialPosition
      [] v = "RealTimeARViewer"    -> RealTime_initialPosition
      [] v = "CloudVisionARViewer" -> Cloud_initialPosition

resetPosition(v) ==
    CASE v = "SmartARViewer"       -> Smart_resetPosition
      [] v = "ImageARViewer"       -> Image_resetPosition
      [] v = "AIARViewer"          -> AI_resetPosition
      [] v = "RealTimeARViewer"    -> RealTime_resetPosition
      [] v = "CloudVisionARViewer" -> Cloud_resetPosition

resetScale(v) ==
    CASE v = "SmartARViewer"       -> Smart_resetScale
      [] v = "ImageARViewer"       -> Image_resetScale
      [] v = "AIARViewer"          -> AI_resetScale
      [] v = "RealTimeARViewer"    -> RealTime_resetScale
      [] v = "CloudVisionARViewer" -> Cloud_resetScale

adjusted(v, prev, increase) ==
    CASE v = "SimpleARViewer"      -> Simple_adjustScale(prev, increase)
      [] v = "CameraARViewer"      -> Camera_adjustScale(prev, increase)
      [] v = "SmartARViewer"       -> Smart_adjustScale(prev, increase)
      [] v = "ImageARViewer"       -> Image_adjustScale(prev, increase)
      [] v = "AIARViewer"          -> AI_adjustScale(prev, increase)
      [] v = "RealTimeARViewer"    -> RealTime_adjustScale(prev, increase)
      [] v = "CloudVisionARViewer" -> Cloud_adjustScale(prev, increase)

\* The verdict a render of viewer v computes (ARViewer: reads from its fits state).
FitsOf(v, sel, room, scale, position, regions, fitsState) ==
    CASE v = "ARViewer"            -> fitsState
      [] v = "SimpleARViewer"      -> Simple_checkFit(sel, scale, room)
      [] v = "CameraARViewer"      -> Camera_checkFit(sel, scale, room)
      [] v = "SmartARViewer"       -> Smart_checkFit(sel, scale, position, regions)
      [] v = "ImageARViewer"       -> Image_checkFit(sel, scale, position)
      [] v = "AIARViewer"          -> AI_checkFit(sel, scale, position, regions).fits
      [] v = "RealTimeARViewer"    -> RealTime_checkFit(sel, scale, position, regions).fits
      [] v = "CloudVisionARViewer" -> Cloud_checkFit(sel, scale, position, regions).fits

ReasonOf(v, sel, scale, position, regions) ==
    CASE v = "AIARViewer"          -> AI_checkFit(sel, scale, position, regions).reason
      [] v = "RealTimeARViewer"    -> RealTime_checkFit(sel, scale, position, regions).reason
      [] v = "CloudVisionARViewer" -> Cloud_checkFit(sel, scale, position, regions).reason
      [] OTHER                     -> NoReason

\* The verdict of the current state.
Fits   == FitsOf(viewer, selectedFurniture, roomDimensions, furnitureScale,
                 furniturePosition, detectedRegions, fits)
Reason == ReasonOf(viewer, selectedFurniture, furnitureScale, furniturePosition,
                   detectedRegions)

\* The viewers whose pan responder has a release handler, and the verdict their first
\* render computes: at the initial placement, with the registry as useState made it.
ReleaseViewers == {"SmartARViewer", "ImageARViewer", "RealTimeARViewer"}

mountVerdict(v, sel) ==
    IF v \in ReleaseViewers
    THEN FitsOf(v, sel, NoRoom, initialScale(v), initialPosition(v),
                IF v = "SmartARViewer" THEN Smart_zones ELSE << >>, TRUE)
    ELSE TRUE

\* The collision flag checkFit obtains from checkCollision in the obstacle viewers.
CollisionOf(v, sel, scale, position, regions) ==
    CASE v = "SmartARViewer" ->
            Smart_checkCollision(regions, position.x, position.y,
                                 sel.width * scale, sel.height * scale)
      [] v = "AIARViewer" ->
            AI_checkCollision(regions, position.x, position.y,
                              sel.width * scale, sel.height * scale).collision
      [] v = "RealTimeARViewer" ->
            RealTime_checkCollision(regions, position.x, position.y,
                                    sel.width * scale, sel.height * scale).collision
      [] v = "CloudVisionARViewer" ->
            Cloud_checkCollision(regions, position.x, position.y,
                                 sel.width * scale, sel.height * scale).collision
      [] OTHER -> FALSE

Collision ==
    CollisionOf(viewer, selectedFurniture, furnitureScale, furniturePosition, detectedRegions)

-----------------------------------------------------------------------------
(* The interval of the scan effect *)

\* setInterval: the id of the new timer.
newInterval(active) == First((1..MaxIntervals) \ active)

\* effectCleanup of an effect that returns no cleanup: the timer is left running.
effectCleanup_none(active, ref) == active

\* The cleanup a run of the scan effect returned: clearInterval of the id it holds.
effectCleanup(active, ref) == active \ {ref}

\* A run of the scan effect after the cleanup of the run before: the timers active
\* afterwards.
effectRun(active, ref) ==
    LET cleared == effectCleanup(active, ref)
    IN  cleared \cup {newInterval(cleared)}

-----------------------------------------------------------------------------
(* Props and permission *)

\* The parent re-renders the viewer with another selectedFurniture.  In ARViewer the
\* fit effect runs on the change.
SelectFurniture(item) ==
    /\ mounted
    /\ item # selectedFurniture
    /\ selectedFurniture' = item
    /\ fits' = IF viewer = "ARViewer"
               THEN AR_fitEffect(item, furniturePosition, roomDimensions, fits)
               ELSE fits
    /\ UNCHANGED <<viewer, mounted, roomDimensions, permission, placementVars, refreshVars,
                   appVars, releaseVars>>

\* The camera permission is granted: the camera view mounts (cameraRef is set) and
\* the scan effect of RealTimeARViewer and CloudVisionARViewer runs for the first time.
GrantPermission ==
    /\ mounted
    /\ ~permission
    /\ permission' = TRUE
    /\ IF viewer \in {"RealTimeARViewer", "CloudVisionARViewer"}
       THEN /\ Cardinality(intervals) < MaxIntervals
            /\ intervals' = intervals \cup {newInterval(intervals)}
            /\ intervalRef' = newInterval(intervals)
       ELSE UNCHANGED timerVars
    /\ \E random \in Draws :
          detectedRegions' =
              CASE viewer = "RealTimeARViewer"    -> RealTime_simpleRegions
                [] viewer = "CloudVisionARViewer" -> Cloud_simulateObjectDetection(random)
                [] OTHER                          -> detectedRegions
    /\ UNCHANGED <<propVars, placementVars, fits, modelReady, isAnalyzing,
                   seenAnalyzing, inFlight>>

\* The parent stops rendering the viewer (onBack): the cleanup of the scan effect runs
\* and React releases the component.  The gesture state goes with it (the variables
\* take the values a mount gives them); the registry, the busy flag, the captures in
\* flight and the timers are kept as they are, for what a callback that outlives the
\* component does to them.
Unmount ==
    /\ mounted
    /\ mounted' = FALSE
    /\ intervals' = effectCleanup(intervals, intervalRef)
    /\ furnitureScale' = initialScale(viewer)
    /\ furniturePosition' = initialPosition(viewer)
    /\ isPlaced' = FALSE
    /\ UNCHANGED <<viewer, selectedFurniture, roomDimensions, permission, fits,
                   detectedRegions, modelReady, isAnalyzing, seenAnalyzing, inFlight,
                   intervalRef, appVars, releaseVars>>

-----------------------------------------------------------------------------
(* Placement *)

AR_moveFurniture(direction) ==
    /\ viewer = "ARViewer"
    /\ mounted /\ permission
    /\ LET position == AR_moved(furniturePosition, direction)
       IN  /\ position.x \in -MaxSide..MaxSide
           /\ position.y \in 0..MaxSide
           /\ position.z \in -MaxDepth..MaxDepth
           /\ furniturePosition' = position
           /\ fits' = AR_fitEffect(selectedFurniture, position, roomDimensions, fits)
    /\ UNCHANGED <<propVars, permission, furnitureScale, isPlaced, refreshVars>>

Simple_moveFurniture(direction) ==
    /\ viewer = "SimpleARViewer"
    /\ mounted /\ permission
    /\ furniturePosition' = Simple_moved(furniturePosition, direction)
    /\ UNCHANGED <<propVars, permission, furnitureScale, isPlaced, fits, refreshVars>>

Camera_moveFurniture(direction) ==
    /\ viewer = "CameraARViewer"
    /\ mounted /\ permission
    /\ furniturePosition' = Camera_moved(furniturePosition, direction)
    /\ UNCHANGED <<propVars, permission, furnitureScale, isPlaced, fits, refreshVars>>

PointerXs == { (i * screenWidth) \div GridX : i \in 0..GridX }
PointerYs == { (i * screenHeight) \div GridY : i \in 0..GridY }

\* A drag reports the absolute pointer coordinates.
onPanResponderMove(moveX, moveY) ==
    /\ viewer \in ScreenViewers
    /\ mounted /\ permission
    /\ furniturePosition' = [x |-> moveX, y |-> moveY]
    /\ isPlaced' = IF viewer \in {"SmartARViewer", "ImageARViewer"} THEN TRUE ELSE isPlaced
    /\ UNCHANGED <<propVars, permission, furnitureScale, fits, refreshVars>>

adjustScale(increase) ==
    /\ viewer \in ScaleViewers
    /\ mounted /\ permission
    /\ furnitureScale' = adjusted(viewer, furnitureScale, increase)
    /\ UNCHANGED <<propVars, permission, furniturePosition, isPlaced, fits, refreshVars>>

resetPlacement ==
    /\ viewer \in ResetViewers
    /\ mounted /\ permission
    /\ furniturePosition' = resetPosition(viewer)
    /\ furnitureScale' = resetScale(viewer)
    /\ isPlaced' = FALSE
    /\ UNCHANGED <<propVars, permission, fits, refreshVars>>

\* onPanResponderRelease.  The responder is created once, by useRef in the first
\* render, so the fits it reads is the verdict of that render.
onPanResponderRelease ==
    /\ viewer \in ReleaseViewers
    /\ mounted /\ permission
    /\ isPlaced' = IF viewer \in {"SmartARViewer", "ImageARViewer"} THEN TRUE ELSE isPlaced
    /\ alertShown' = IF viewer = "ImageARViewer" THEN alertShown ELSE ~mountFits
    /\ UNCHANGED <<viewer, mounted, selectedFurniture, roomDimensions, appVars, mountFits,
                   permission, furnitureScale, furniturePosition, fits, refreshVars>>

-----------------------------------------------------------------------------
(* Obstacle refresh *)

\* AIARViewer: loadModel settles (setModelReady(true) on success and on failure) and
\* the detection effect runs detectObjects once and starts the interval.
\* detectObjects has no await before its finally: it runs to its end in one step.
AI_modelLoaded ==
    /\ viewer = "AIARViewer"
    /\ mounted
    /\ ~modelReady
    /\ modelReady' = TRUE
    /\ detectedRegions' = AI_simulateObjectDetection
    /\ Cardinality(intervals) < MaxIntervals
    /\ intervals' = intervals \cup {newInterval(intervals)}
    /\ intervalRef' = newInterval(intervals)
    /\ UNCHANGED <<propVars, permission, placementVars, fits, isAnalyzing,
                   seenAnalyzing, inFlight>>

\* A tick of an active interval, or the detect button of the mounted overlay.
AI_detectObjects ==
    /\ viewer = "AIARViewer"
    /\ intervals # {} \/ (mounted /\ permission)
    /\ modelReady /\ ~seenAnalyzing
    /\ detectedRegions' = AI_simulateObjectDetection
    /\ isAnalyzing' = FALSE
    /\ UNCHANGED <<propVars, permission, placementVars, fits, modelReady,
                   seenAnalyzing, inFlight, timerVars>>

\* RealTimeARViewer.analyzeFrame up to its first await, called by a timer tick or by
\* manualScan.  The guard reads the isAnalyzing of the render that made the callback.
RealTime_analyzeFrame ==
    /\ viewer = "RealTimeARViewer"
    /\ mounted /\ permission /\ ~seenAnalyzing
    /\ inFlight < MaxInFlight
    /\ isAnalyzing' = TRUE
    /\ inFlight' = inFlight + 1
    /\ UNCHANGED <<propVars, permission, placementVars, fits, detectedRegions,
                   modelReady, seenAnalyzing, timerVars>>

\* RealTime_captureSettled pushing the new regions onto the ones already held.
RealTime_captureSettled_append(outcome, random) ==
    /\ viewer = "RealTimeARViewer"
    /\ inFlight > 0
    /\ detectedRegions' =
          CASE outcome = "photo"   -> detectedRegions \o RealTime_detectObstaclesInImage(random)
            [] outcome = "nophoto" -> detectedRegions
            [] outcome = "error"   -> detectedRegions \o RealTime_simpleRegions
    /\ isAnalyzing' = FALSE
    /\ inFlight' = inFlight - 1
    /\ UNCHANGED <<propVars, permission, placementVars, fits, modelReady, seenAnalyzing,
                   timerVars>>

\* RealTime_captureSettled whose catch block only logs the error.
RealTime_captureSettled_noFallback(outcome, random) ==
    /\ viewer = "RealTimeARViewer"
    /\ inFlight > 0
    /\ detectedRegions' =
          CASE outcome = "photo"   -> RealTime_detectObstaclesInImage(random)
            [] outcome = "nophoto" -> detectedRegions
            [] outcome = "error"   -> detectedRegions
    /\ isAnalyzing' = FALSE
    /\ inFlight' = inFlight - 1
    /\ UNCHANGED <<propVars, permission, placementVars, fits, modelReady, seenAnalyzing,
                   timerVars>>

\* The rest of analyzeFrame, once the capture settles: regions from the photo, nothing
\* when there is no photo, performSimpleDetection when the capture or the resize throws.
RealTime_captureSettled(outcome, random) ==
    /\ viewer = "RealTimeARViewer"
    /\ inFlight > 0
    /\ detectedRegions' =
          CASE outcome = "photo"   -> RealTime_detectObstaclesInImage(random)
            [] outcome = "nophoto" -> detectedRegions
            [] outcome = "error"   -> RealTime_simpleRegions
    /\ isAnalyzing' = FALSE
    /\ inFlight' = inFlight - 1
    /\ UNCHANGED <<propVars, permission, placementVars, fits, modelReady, seenAnalyzing,
                   timerVars>>

\* A render after isAnalyzing changed: analyzeFrame is a new callback, so the scan
\* effect is cleaned up and runs again (performSimpleDetection, a new interval).
RealTime_render ==
    /\ viewer = "RealTimeARViewer"
    /\ mounted /\ permission
    /\ seenAnalyzing # isAnalyzing
    /\ seenAnalyzing' = isAnalyzing
    /\ detectedRegions' = RealTime_simpleRegions
    /\ Cardinality(effectCleanup(intervals, intervalRef)) < MaxIntervals
    /\ intervals' = effectRun(intervals, intervalRef)
    /\ intervalRef' = newInterval(effectCleanup(intervals, intervalRef))
    /\ UNCHANGED <<propVars, permission, placementVars, fits, modelReady,
                   isAnalyzing, inFlight>>

\* CloudVisionARViewer.captureAndAnalyze up to its await, called by a timer tick or by
\* the scan button.
Cloud_captureAndAnalyze ==
    /\ viewer = "CloudVisionARViewer"
    /\ mounted /\ permission /\ ~seenAnalyzing
    /\ inFlight < MaxInFlight
    /\ isAnalyzing' = TRUE
    /\ inFlight' = inFlight + 1
    /\ UNCHANGED <<propVars, permission, placementVars, fits, detectedRegions,
                   modelReady, seenAnalyzing, timerVars>>

\* Cloud_captureSettled without the finally block: a capture that throws leaves the
\* busy flag set.
Cloud_captureSettled_noFinally(outcome, random) ==
    /\ viewer = "CloudVisionARViewer"
    /\ inFlight > 0
    /\ detectedRegions' =
          CASE outcome = "photo"   -> Cloud_simulateObjectDetection(random)
            [] outcome = "nophoto" -> detectedRegions
            [] outcome = "error"   -> Cloud_simulateObjectDetection(random)
    /\ isAnalyzing' = IF outcome = "error" THEN isAnalyzing ELSE FALSE
    /\ inFlight' = inFlight - 1
    /\ UNCHANGED <<propVars, permission, placementVars, fits, modelReady, seenAnalyzing,
                   timerVars>>

Cloud_captureSettled(outcome, random) ==
    /\ viewer = "CloudVisionARViewer"
    /\ inFlight > 0
    /\ detectedRegions' =
          CASE outcome = "photo"   -> Cloud_simulateObjectDetection(random)
            [] outcome = "nophoto" -> detectedRegions
            [] outcome = "error"   -> Cloud_simulateObjectDetection(random)
    /\ isAnalyzing' = FALSE
    /\ inFlight' = inFlight - 1
    /\ UNCHANGED <<propVars, permission, placementVars, fits, modelReady, seenAnalyzing,
                   timerVars>>

Cloud_render ==
    /\ viewer = "CloudVisionARViewer"
    /\ mounted /\ permission
    /\ seenAnalyzing # isAnalyzing
    /\ seenAnalyzing' = isAnalyzing
    /\ \E random \in Draws : detectedRegions' = Cloud_simulateObjectDetection(random)
    /\ Cardinality(effectCleanup(intervals, intervalRef)) < MaxIntervals
    /\ intervals' = effectRun(intervals, intervalRef)
    /\ intervalRef' = newInterval(effectCleanup(intervals, intervalRef))
    /\ UNCHANGED <<propVars, permission, placementVars, fits, modelReady,
                   isAnalyzing, inFlight>>

-----------------------------------------------------------------------------
(* The state machine *)

Init ==
    /\ viewer \in Viewers
    /\ mounted = TRUE
    /\ selectedFurniture \in Items \cup {Null}
    /\ roomDimensions \in (IF viewer \in RoomViewers \cup {"ARViewer"} THEN Rooms ELSE {NoRoom})
    /\ permission = FALSE
    /\ furnitureScale = initialScale(viewer)
    /\ furniturePosition = initialPosition(viewer)
    /\ isPlaced = FALSE
    /\ fits = IF viewer = "ARViewer"
              THEN AR_fitEffect(selectedFurniture, AR_initialPosition, roomDimensions, TRUE)
              ELSE TRUE
    /\ detectedRegions = IF viewer = "SmartARViewer" THEN Smart_zones ELSE << >>
    /\ modelReady = FALSE
    /\ isAnalyzing = FALSE
    /\ seenAnalyzing = FALSE
    /\ inFlight = 0
    /\ intervals = {}
    /\ intervalRef = 0
    /\ showAR = TRUE
    /\ furnitureImage = Undefined
    /\ uploadedImage = NoImage
    /\ customDimensions = initialDimensions
    /\ mountFits = mountVerdict(viewer, selectedFurniture)
    /\ alertShown = FALSE

Outcomes == {"photo", "nophoto", "error"}

Next ==
    \/ \E item \in Items \cup {Null} : SelectFurniture(item)
    \/ GrantPermission
    \/ Unmount
    \/ \E d \in {"left", "right", "forward", "backward", "up", "down"} : AR_moveFurniture(d)
    \/ \E d \in {"left", "right", "up", "down"} : Simple_moveFurniture(d)
    \/ \E d \in {"left", "right", "up", "down"} : Camera_moveFurniture(d)
    \/ \E x \in PointerXs, y \in PointerYs : onPanResponderMove(x, y)
    \/ \E increase \in BOOLEAN : adjustScale(increase)
    \/ resetPlacement
    \/ onPanResponderRelease
    \/ AI_modelLoaded
    \/ AI_detectObjects
    \/ RealTime_analyzeFrame
    \/ \E outcome \in Outcomes, random \in Draws : RealTime_captureSettled(outcome, random)
    \/ RealTime_render
    \/ Cloud_captureAndAnalyze
    \/ \E outcome \in Outcomes, random \in Draws : Cloud_captureSettled(outcome, random)
    \/ Cloud_render

Spec == Init /\ [][Next]_vars

\* The refreshes of the three detecting viewers under the claim's proviso that a capture
\* call settles, and with React rendering a mounted component whose state changed.
RefreshViewers == {"AIARViewer", "RealTimeARViewer", "CloudVisionARViewer"}

InitRefresh == Init /\ viewer \in RefreshViewers

captureSettles ==
    \E outcome \in Outcomes, random \in Draws :
        RealTime_captureSettled(outcome, random) \/ Cloud_captureSettled(outcome, random)

renders == RealTime_render \/ Cloud_render

NextRefresh ==
    \/ \E item \in Items \cup {Null} : SelectFurniture(item)
    \/ GrantPermission
    \/ Unmount
    \/ resetPlacement
    \/ AI_modelLoaded
    \/ AI_detectObjects
    \/ RealTime_analyzeFrame
    \/ Cloud_captureAndAnalyze
    \/ captureSettles
    \/ renders

SpecRefresh ==
    InitRefresh /\ [][NextRefresh]_vars /\ WF_vars(captureSettles) /\ WF_vars(renders)

-----------------------------------------------------------------------------
(* The fit evaluation as a function of its inputs.  checkCollision and   *)
(* checkFit read the props, the placement and the registry; SpecEval     *)
(* draws the three from bounded sets in its initial state, whatever      *)
(* detector filled the registry, and applies the evaluation to every     *)
(* placement the gestures reach from there.                              *)

\* Registries drawn hold at most MaxRegions regions.
MaxRegions == 2

\* Regions a detector may report, as [x, y, width, height, clear, confidence, label].
\* The sofa-1 item at (200, 560) and scale 0.4 covers [160, 240] x [543, 577]: the
\* first three regions overlap it, the next four share exactly one edge with it, and
\* the last two are clear regions that hold its center.
EvalRegions ==
    { [x |-> 150, y |-> 500, width |-> 100, height |-> 100, clear |-> FALSE,
       confidence |-> (4 * ConfUnit) \div 10, label |-> "chair"],
      [x |-> 150, y |-> 500, width |-> 100, height |-> 100, clear |-> FALSE,
       confidence |-> (5 * ConfUnit) \div 10, label |-> "couch"],
      [x |-> 150, y |-> 500, width |-> 100, height |-> 100, clear |-> FALSE,
       confidence |-> (9 * ConfUnit) \div 10, label |-> "person"],
      [x |-> 240, y |-> 500, width |-> 100, height |-> 100, clear |-> FALSE,
       confidence |-> (9 * ConfUnit) \div 10, label |-> "tv"],
      [x |-> 60, y |-> 500, width |-> 100, height |-> 100, clear |-> FALSE,
       confidence |-> (9 * ConfUnit) \div 10, label |-> "bed"],
      [x |-> 150, y |-> 443, width |-> 100, height |-> 100, clear |-> FALSE,
       confidence |-> (9 * ConfUnit) \div 10, label |-> "bench"],
      [x |-> 150, y |-> 577, width |-> 100, height |-> 100, clear |-> FALSE,
       confidence |-> (9 * ConfUnit) \div 10, label |-> "vase"],
      [x |-> 0, y |-> 0, width |-> 50, height |-> 50, clear |-> FALSE,
       confidence |-> (9 * ConfUnit) \div 10, label |-> "clock"],
      [x |-> 150, y |-> 500, width |-> 100, height |-> 100, clear |-> TRUE,
       confidence |-> (9 * ConfUnit) \div 10, label |-> "floor"],
      [x |-> 150, y |-> 500, width |-> 100, height |-> 100, clear |-> TRUE,
       confidence |-> (3 * ConfUnit) \div 10, label |-> "floor"] }

\* A region in the shape viewer v keeps it in.
regionFor(v, t) ==
    CASE v = "SmartARViewer" ->
            [x |-> t.x, y |-> t.y, width |-> t.width, height |-> t.height]
      [] v = "AIARViewer" ->
            [class |-> t.label, bbox |-> << t.x, t.y, t.width, t.height >>]
      [] v = "RealTimeARViewer" ->
            [x |-> t.x, y |-> t.y, width |-> t.width, height |-> t.height,
             type |-> IF t.clear THEN "clear" ELSE "obstacle", confidence |-> t.confidence]
      [] v = "CloudVisionARViewer" ->
            [label |-> IF t.clear THEN "floor" ELSE t.label, confidence |-> t.confidence,
             boundingBox |-> [x |-> t.x, y |-> t.y, width |-> t.width, height |-> t.height]]

EvalRegistries(v) ==
    UNION { { [i \in 1..n |-> regionFor(v, f[i])] : f \in [1..n -> EvalRegions] } :
            n \in 0..MaxRegions }

EvalPoints == { [x |-> 200, y |-> 560], [x |-> 200, y |-> 400], [x |-> 0, y |-> 560] }
EvalScales == { (4 * ScaleUnit) \div 10, ScaleUnit }

InitEval ==
    /\ viewer \in RegionViewers
    /\ mounted = TRUE
    /\ selectedFurniture \in Items \cup {Null}
    /\ roomDimensions = NoRoom
    /\ permission = TRUE
    /\ furnitureScale \in EvalScales
    /\ furniturePosition \in EvalPoints
    /\ isPlaced = FALSE
    /\ fits = TRUE
    /\ detectedRegions \in EvalRegistries(viewer)
    /\ modelReady = (viewer = "AIARViewer")
    /\ isAnalyzing = FALSE
    /\ seenAnalyzing = FALSE
    /\ inFlight = 0
    /\ intervals = {}
    /\ intervalRef = 0
    /\ showAR = TRUE
    /\ furnitureImage = Undefined
    /\ uploadedImage = NoImage
    /\ customDimensions = initialDimensions
    /\ mountFits = mountVerdict(viewer, selectedFurniture)
    /\ alertShown = FALSE

NextEval ==
    \/ \E item \in Items \cup {Null} : SelectFurniture(item)
    \/ \E p \in EvalPoints : onPanResponderMove(p.x, p.y)
    \/ resetPlacement

SpecEval == InitEval /\ [][NextEval]_vars

-----------------------------------------------------------------------------
(* Evaluation of checkCollision over rectangles of any size.  The        *)
(* registry holds regions of positive, zero and negative width or        *)
(* height, and the item may have width 0.  The sofa-1 item at (200, 560) *)
(* and scale 0.4 covers [160, 240] x [543, 577].                         *)

RectRegions ==
    { \* a region that overlaps the item, one apart from it, one on its right edge
      [x |-> 150, y |-> 500, width |-> 100, height |-> 100, clear |-> FALSE,
       confidence |-> (9 * ConfUnit) \div 10, label |-> "person"],
      [x |-> 0, y |-> 0, width |-> 50, height |-> 50, clear |-> FALSE,
       confidence |-> (9 * ConfUnit) \div 10, label |-> "clock"],
      [x |-> 240, y |-> 500, width |-> 100, height |-> 100, clear |-> FALSE,
       confidence |-> (9 * ConfUnit) \div 10, label |-> "tv"],
      \* negative width and negative height, the span between the edges inside the item
      [x |-> 220, y |-> 500, width |-> 0 - 40, height |-> 100, clear |-> FALSE,
       confidence |-> (9 * ConfUnit) \div 10, label |-> "chair"],
      [x |-> 150, y |-> 570, width |-> 100, height |-> 0 - 20, clear |-> FALSE,
       confidence |-> (9 * ConfUnit) \div 10, label |-> "couch"],
      \* width 0 and height 0, inside the item
      [x |-> 200, y |-> 500, width |-> 0, height |-> 100, clear |-> FALSE,
       confidence |-> (9 * ConfUnit) \div 10, label |-> "bed"],
      [x |-> 150, y |-> 560, width |-> 100, height |-> 0, clear |-> FALSE,
       confidence |-> (9 * ConfUnit) \div 10, label |-> "bench"],
      \* width 0, apart from the item
      [x |-> 300, y |-> 500, width |-> 0, height |-> 100, clear |-> FALSE,
       confidence |-> (9 * ConfUnit) \div 10, label |-> "vase"] }

RectRegistries(v) ==
    UNION { { [i \in 1..n |-> regionFor(v, f[i])] : f \in [1..n -> RectRegions] } :
            n \in 0..MaxRegions }

\* An item of width 0 next to a preset.
RectItems == { furniturePresets[1], [id |-> "flat-1", width |-> 0, height |-> 85, depth |-> 90] }

InitRect ==
    /\ viewer \in RegionViewers
    /\ mounted = TRUE
    /\ selectedFurniture \in RectItems \cup {Null}
    /\ roomDimensions = NoRoom
    /\ permission = TRUE
    /\ furnitureScale \in EvalScales
    /\ furniturePosition \in EvalPoints
    /\ isPlaced = FALSE
    /\ fits = TRUE
    /\ detectedRegions \in RectRegistries(viewer)
    /\ modelReady = (viewer = "AIARViewer")
    /\ isAnalyzing = FALSE
    /\ seenAnalyzing = FALSE
    /\ inFlight = 0
    /\ intervals = {}
    /\ intervalRef = 0
    /\ showAR = TRUE
    /\ furnitureImage = Undefined
    /\ uploadedImage = NoImage
    /\ customDimensions = initialDimensions
    /\ mountFits = mountVerdict(viewer, selectedFurniture)
    /\ alertShown = FALSE

NextRect ==
    \/ \E item \in RectItems \cup {Null} : SelectFurniture(item)
    \/ \E p \in EvalPoints : onPanResponderMove(p.x, p.y)
    \/ resetPlacement

SpecRect == InitRect /\ [][NextRect]_vars

-----------------------------------------------------------------------------
(* Evaluation of the 3-D room check of ARViewer: the item is moved       *)
(* through the room in steps of 0.2 m, in rooms of several heights,      *)
(* among them one lower than the Bookshelf.                              *)

Rooms3D == Rooms \cup { [width |-> 200, height |-> 170, depth |-> 90] }

Items3D == Items \cup { furniturePresets[3] }

InitRoom ==
    /\ viewer = "ARViewer"
    /\ mounted = TRUE
    /\ selectedFurniture \in Items3D \cup {Null}
    /\ roomDimensions \in Rooms3D
    /\ permission = TRUE
    /\ furnitureScale = initialScale(viewer)
    /\ furniturePosition = AR_initialPosition
    /\ isPlaced = FALSE
    /\ fits = AR_fitEffect(selectedFurniture, AR_initialPosition, roomDimensions, TRUE)
    /\ detectedRegions = << >>
    /\ modelReady = FALSE
    /\ isAnalyzing = FALSE
    /\ seenAnalyzing = FALSE
    /\ inFlight = 0
    /\ intervals = {}
    /\ intervalRef = 0
    /\ showAR = TRUE
    /\ furnitureImage = Undefined
    /\ uploadedImage = NoImage
    /\ customDimensions = initialDimensions
    /\ mountFits = mountVerdict(viewer, selectedFurniture)
    /\ alertShown = FALSE

NextRoom ==
    \/ \E item \in Items3D \cup {Null} : SelectFurniture(item)
    \/ \E d \in {"left", "right", "forward", "backward", "up", "down"} : AR_moveFurniture(d)

SpecRoom == InitRoom /\ [][NextRoom]_vars

-----------------------------------------------------------------------------
(* App and FurnitureSelector.  App shows the selector until an item is   *)
(* chosen and CloudVisionARViewer from then until its back button; the   *)
(* selector's own state lives while it is shown.  The texts typed have   *)
(* no decimal point or exponent, so parseFloat yields an integer or NaN. *)

NaN == [nan |-> TRUE, value |-> 0]
Number(n) == [nan |-> FALSE, value |-> n]

Digits == {"0", "1", "2", "3", "4", "5", "6", "7", "8", "9"}

digitValue(c) ==
    CASE c = "0" -> 0 [] c = "1" -> 1 [] c = "2" -> 2 [] c = "3" -> 3 [] c = "4" -> 4
      [] c = "5" -> 5 [] c = "6" -> 6 [] c = "7" -> 7 [] c = "8" -> 8 [] c = "9" -> 9

\* The longest prefix of digits of a text, and the number it denotes.
RECURSIVE digitPrefix(_)
digitPrefix(text) ==
    IF text = << >> \/ Head(text) \notin Digits THEN << >>
    ELSE <<Head(text)>> \o digitPrefix(Tail(text))

RECURSIVE decimalValue(_)
decimalValue(digits) ==
    IF digits = << >> THEN 0
    ELSE 10 * decimalValue(SubSeq(digits, 1, Len(digits) - 1)) + digitValue(digits[Len(digits)])

\* parseFloat: an optional sign and the longest numeric prefix; NaN if there is none.
parseFloat(text) ==
    LET signed == text # << >> /\ Head(text) \in {"-", "+"}
        body   == IF signed THEN Tail(text) ELSE text
        digits == digitPrefix(body)
    IN  IF digits = << >> THEN NaN
        ELSE IF signed /\ Head(text) = "-" THEN Number(0 - decimalValue(digits))
        ELSE Number(decimalValue(digits))

\* number || fallback: NaN and 0 are falsy.
orElse(number, fallback) ==
    IF number.nan \/ number.value = 0 THEN fallback ELSE number.value

\* The item createCustomFurniture builds from the three texts.
customFurniture(dimensions) ==
    [id     |-> "custom-1",
     width  |-> orElse(parseFloat(dimensions.width), 100),
     height |-> orElse(parseFloat(dimensions.height), 100),
     depth  |-> orElse(parseFloat(dimensions.depth), 100)]

\* App.handleSelectFurniture; the selector is unmounted by the render that follows.
App_handleSelectFurniture(furniture, image) ==
    /\ selectedFurniture' = furniture
    /\ furnitureImage' = image
    /\ showAR' = TRUE
    /\ viewer' = "CloudVisionARViewer"
    /\ uploadedImage' = NoImage
    /\ customDimensions' = initialDimensions

onChangeText(field, text) ==
    /\ ~showAR
    /\ customDimensions' = [customDimensions EXCEPT ![field] = text]
    /\ UNCHANGED <<viewer, mounted, selectedFurniture, roomDimensions, showAR, furnitureImage,
                   uploadedImage, permission, fits, placementVars, refreshVars, releaseVars>>

\* result is "canceled" or the uri of the chosen asset.
pickImage(result) ==
    /\ ~showAR
    /\ uploadedImage' = IF result # "canceled" THEN result ELSE uploadedImage
    /\ UNCHANGED <<viewer, mounted, selectedFurniture, roomDimensions, showAR, furnitureImage,
                   customDimensions, permission, fits, placementVars, refreshVars, releaseVars>>

handleSelectFurniture(furniture) ==
    /\ ~showAR
    /\ App_handleSelectFurniture(furniture, Undefined)
    /\ UNCHANGED <<mounted, roomDimensions, permission, fits, placementVars, refreshVars, releaseVars>>

\* Without an uploaded image the handler alerts and returns.
createCustomFurniture ==
    /\ ~showAR
    /\ IF uploadedImage = NoImage
       THEN UNCHANGED <<viewer, selectedFurniture, appVars>>
       ELSE App_handleSelectFurniture(customFurniture(customDimensions), uploadedImage)
    /\ UNCHANGED <<mounted, roomDimensions, permission, fits, placementVars, refreshVars, releaseVars>>

\* handleBack that leaves furnitureImage as it is.
handleBack_keepImage ==
    /\ showAR
    /\ showAR' = FALSE
    /\ selectedFurniture' = Null
    /\ viewer' = "FurnitureSelector"
    /\ UNCHANGED <<mounted, roomDimensions, furnitureImage, uploadedImage, customDimensions,
                   permission, fits, placementVars, refreshVars, releaseVars>>

\* App.handleBack, the viewer's onBack.
handleBack ==
    /\ showAR
    /\ showAR' = FALSE
    /\ selectedFurniture' = Null
    /\ furnitureImage' = Undefined
    /\ viewer' = "FurnitureSelector"
    /\ UNCHANGED <<mounted, roomDimensions, uploadedImage, customDimensions, permission, fits,
                   placementVars, refreshVars, releaseVars>>

InitApp ==
    /\ viewer = "FurnitureSelector"
    /\ mounted = TRUE
    /\ selectedFurniture = Null
    /\ roomDimensions = NoRoom
    /\ permission = FALSE
    /\ furnitureScale = initialScale("CloudVisionARViewer")
    /\ furniturePosition = initialPosition("CloudVisionARViewer")
    /\ isPlaced = FALSE
    /\ fits = TRUE
    /\ detectedRegions = << >>
    /\ modelReady = FALSE
    /\ isAnalyzing = FALSE
    /\ seenAnalyzing = FALSE
    /\ inFlight = 0
    /\ intervals = {}
    /\ intervalRef = 0
    /\ showAR = FALSE
    /\ furnitureImage = Undefined
    /\ uploadedImage = NoImage
    /\ customDimensions = initialDimensions
    /\ mountFits = mountVerdict(viewer, selectedFurniture)
    /\ alertShown = FALSE

NextApp ==
    \/ \E field \in Fields, text \in Entries : onChangeText(field, text)
    \/ \E result \in ImageUris \cup {"canceled"} : pickImage(result)
    \/ \E furniture \in Items : handleSelectFurniture(furniture)
    \/ createCustomFurniture
    \/ handleBack

SpecApp == InitApp /\ [][NextApp]_vars

-----------------------------------------------------------------------------
(* Geometry of the properties, stated apart from the code's own tests.   *)
(* Rectangles are [left, right, top, bottom] in Px units.                *)

\* The centered bounding rect of the selected item at the current position and scale.
PlacedRect ==
    [left   |-> 2 * ScaleUnit * furniturePosition.x - selectedFurniture.width * furnitureScale,
     right  |-> 2 * ScaleUnit * furniturePosition.x + selectedFurniture.width * furnitureScale,
     top    |-> 2 * ScaleUnit * furniturePosition.y - selectedFurniture.height * furnitureScale,
     bottom |-> 2 * ScaleUnit * furniturePosition.y + selectedFurniture.height * furnitureScale]

\* A detected region of viewer v as [rect, label, confidence, clear].
RegionOf(v, r) ==
    CASE v = "SmartARViewer" ->
            [rect  |-> [left |-> 2 * ScaleUnit * r.x, right  |-> 2 * ScaleUnit * (r.x + r.width),
                        top  |-> 2 * ScaleUnit * r.y, bottom |-> 2 * ScaleUnit * (r.y + r.height)],
             label |-> "zone", confidence |-> ConfUnit, clear |-> FALSE]
      [] v = "AIARViewer" ->
            [rect  |-> [left |-> 2 * ScaleUnit * r.bbox[1],
                        right  |-> 2 * ScaleUnit * (r.bbox[1] + r.bbox[3]),
                        top  |-> 2 * ScaleUnit * r.bbox[2],
                        bottom |-> 2 * ScaleUnit * (r.bbox[2] + r.bbox[4])],
             label |-> r.class, confidence |-> ConfUnit, clear |-> FALSE]
      [] v = "RealTimeARViewer" ->
            [rect  |-> [left |-> 2 * ScaleUnit * r.x, right  |-> 2 * ScaleUnit * (r.x + r.width),
                        top  |-> 2 * ScaleUnit * r.y, bottom |-> 2 * ScaleUnit * (r.y + r.height)],
             label |-> r.type, confidence |-> r.confidence, clear |-> r.type = "clear"]
      [] v = "CloudVisionARViewer" ->
            [rect  |-> [left   |-> 2 * ScaleUnit * r.boundingBox.x,
                        right  |-> 2 * ScaleUnit * (r.boundingBox.x + r.boundingBox.width),
                        top    |-> 2 * ScaleUnit * r.boundingBox.y,
                        bottom |-> 2 * ScaleUnit * (r.boundingBox.y + r.boundingBox.height)],
             label |-> r.label, confidence |-> r.confidence, clear |-> r.label = "floor"]

\* The detected regions of the current state that are obstacles.
Obstacles ==
    { RegionOf(viewer, detectedRegions[i]) : i \in 1..Len(detectedRegions) }
        \ { o \in { RegionOf(viewer, detectedRegions[i]) : i \in 1..Len(detectedRegions) } : o.clear }

\* The rectangles share an area of positive size.
ProperlyOverlap(a, b) ==
    a.left < b.right /\ b.left < a.right /\ a.top < b.bottom /\ b.top < a.bottom

\* The rectangles share at least a point (an area, an edge or a corner).
Meet(a, b) ==
    a.left <= b.right /\ b.left <= a.right /\ a.top <= b.bottom /\ b.top <= a.bottom

\* The rectangle lies strictly inside the viewport.
InsideViewport(a) ==
    /\ a.left > 0 /\ a.right < 2 * ScaleUnit * screenWidth
    /\ a.top > 0  /\ a.bottom < 2 * ScaleUnit * screenHeight

-----------------------------------------------------------------------------
(* C1.  Obstacle precedence.  In AIARViewer and CloudVisionARViewer, when *)
(* an item is selected and its centered bounding rect overlaps a         *)
(* detected obstacle, the verdict is fits = false with the reason        *)
(* 'Blocked by <label>' naming an obstacle the rect meets, also when the *)
(* rect is out of the screen bounds; and 'Out of bounds' is the reason   *)
(* only when the rect overlaps no obstacle.                              *)

C1_ObstaclePrecedence ==
    (viewer \in {"AIARViewer", "CloudVisionARViewer"} /\ selectedFurniture # Null) =>
        LET blocking == { o \in Obstacles : ProperlyOverlap(PlacedRect, o.rect) }
        IN  /\ blocking # {} =>
                /\ ~Fits
                /\ Reason.text = "Blocked by"
                /\ \E o \in Obstacles : Meet(PlacedRect, o.rect) /\ Reason.object = o.label
            /\ Reason.text = "Out of bounds" => blocking = {}

\* An item that overlaps an obstacle and is out of bounds at once, reported as blocked.
C1_Witness ==
    /\ viewer = "AIARViewer"
    /\ selectedFurniture # Null
    /\ \E o \in Obstacles : ProperlyOverlap(PlacedRect, o.rect)
    /\ ~InsideViewport(PlacedRect)
    /\ ~Fits
    /\ Reason = [text |-> "Blocked by", object |-> "person", percent |-> 0]

-----------------------------------------------------------------------------
(* C2.  Confidence floor.  In RealTimeARViewer and CloudVisionARViewer,   *)
(* for every registry content and placement: when every obstacle region  *)
(* the item's rect meets has a confidence that is not above 0.5,         *)
(* checkCollision reports no collision and the reason given is not a     *)
(* blocking one.                                                         *)

-----------------------------------------------------------------------------
(* C3.  Room-dimension check.  In SimpleARViewer and CameraARViewer an    *)
(* item fits exactly when its scaled width is at most the room's width   *)
(* and its scaled depth is at most the room's depth, whatever its height *)
(* and position; equality on an axis fits: the 200 x 90 sofa at scale    *)
(* 1.0 fits a room 200 wide and 90 deep and does not fit one 199 wide.   *)

C3_RoomDimensionCheck ==
    (viewer \in RoomViewers /\ selectedFurniture # Null) =>
        /\ Fits <=> /\ selectedFurniture.width * furnitureScale
                            <= roomDimensions.width * ScaleUnit
                    /\ selectedFurniture.depth * furnitureScale
                            <= roomDimensions.depth * ScaleUnit
        /\ ( /\ selectedFurniture.id = "sofa-1"
             /\ furnitureScale = ScaleUnit
             /\ roomDimensions.depth = 90 ) =>
                /\ roomDimensions.width = 200 => Fits
                /\ roomDimensions.width = 199 => ~Fits

\* The sofa at scale 1.0, moved off its first position, fitting a room of its own size.
C3_Witness ==
    /\ viewer = "CameraARViewer"
    /\ selectedFurniture.id = "sofa-1"
    /\ furnitureScale = ScaleUnit
    /\ furniturePosition # Camera_initialPosition
    /\ roomDimensions.width = 200 /\ roomDimensions.depth = 90
    /\ Fits

-----------------------------------------------------------------------------
(* C4.  Nothing selected.  Whenever no item is selected, every viewer's   *)
(* verdict is fits = true, with an empty reason where the viewer gives   *)
(* reasons, also after a selected item did not fit.                      *)

C4_NothingSelectedFits ==
    selectedFurniture = Null =>
        /\ Fits
        /\ viewer \in ReasonViewers => Reason = NoReason

-----------------------------------------------------------------------------
(* C5.  Purity.  The verdict of a state is the one an evaluation from     *)
(* scratch gives for the state's inputs (selection, room, scale,         *)
(* position, registry): it depends on no earlier verdict, selection or   *)
(* number of calls.                                                      *)

C5_VerdictOfInputsOnly ==
    Fits = FitsOf(viewer, selectedFurniture, roomDimensions, furnitureScale,
                  furniturePosition, detectedRegions,
                  AR_fitEffect(selectedFurniture, furniturePosition, roomDimensions, TRUE))

-----------------------------------------------------------------------------
(* C6.  Scale bounds.  After any sequence of scale changes and resets the *)
(* scale lies in [0.1, 3.0] in SimpleARViewer and CameraARViewer, in     *)
(* [0.1, 2.0] in ImageARViewer, and in [0.1, 1.5] in SmartARViewer,      *)
(* AIARViewer, RealTimeARViewer and CloudVisionARViewer.                 *)

ScaleFloor == ScaleUnit \div 10

ScaleCeiling(v) ==
    CASE v \in RoomViewers     -> 3 * ScaleUnit
      [] v = "ImageARViewer"   -> 2 * ScaleUnit
      [] OTHER                 -> (15 * ScaleUnit) \div 10

C6_ScaleWithinBounds ==
    viewer \in ScaleViewers =>
        /\ furnitureScale >= ScaleFloor
        /\ furnitureScale <= ScaleCeiling(viewer)

\* ImageARViewer scaled up until the clamp holds it at 2.0.
C6_Witness ==
    /\ viewer = "ImageARViewer"
    /\ furnitureScale = 2 * ScaleUnit
    /\ adjusted(viewer, furnitureScale, TRUE) = furnitureScale

-----------------------------------------------------------------------------
(* C7.  Saturating clamp.  Scaling down never takes the scale below 0.1: *)
(* a scale-down step from above 0.1 yields a smaller scale that is still *)
(* at least 0.1, so that repeated steps end at exactly 0.1; a further    *)
(* scale-down step leaves the scale at 0.1, and one scale-up step from   *)
(* 0.1 leaves 0.1, so the item never sticks at 0.                        *)

C7_State ==
    viewer \in ScaleViewers => furnitureScale >= ScaleFloor

C7_Step ==
    /\ adjustScale(FALSE) =>
            /\ furnitureScale' >= ScaleFloor
            /\ furnitureScale > ScaleFloor => furnitureScale' < furnitureScale
            /\ furnitureScale = ScaleFloor => furnitureScale' = ScaleFloor
    /\ (adjustScale(TRUE) /\ furnitureScale = ScaleFloor) => furnitureScale' > ScaleFloor

C7_SaturatingClamp == []C7_State /\ [][C7_Step]_vars

\* AIARViewer scaled down from 0.4 to the floor, where another step down stays.
C7_Witness ==
    /\ viewer = "AIARViewer"
    /\ furnitureScale = ScaleFloor
    /\ adjusted(viewer, furnitureScale, FALSE) = ScaleFloor
    /\ adjusted(viewer, furnitureScale, TRUE) > ScaleFloor

-----------------------------------------------------------------------------
(* C8.  No collision on touch.  For every registry content and           *)
(* placement in the obstacle viewers: when the item's rect shares no     *)
(* area of positive size with any obstacle region, at most an edge or a  *)
(* corner, checkCollision reports no collision.                          *)

-----------------------------------------------------------------------------
(* C9.  Screen-bounds check.  In every screen-space viewer a selected    *)
(* item whose rect is not strictly inside the viewport is never reported *)
(* as fitting, and where reasons are given and the rect meets no         *)
(* obstacle the reason is 'Out of bounds'.                               *)

C9_ScreenBounds ==
    ( /\ viewer \in ScreenViewers
      /\ selectedFurniture # Null
      /\ ~InsideViewport(PlacedRect) ) =>
        /\ ~Fits
        /\ ( /\ viewer \in ReasonViewers
             /\ \A o \in Obstacles : ~Meet(PlacedRect, o.rect) ) =>
                Reason.text = "Out of bounds"

-----------------------------------------------------------------------------
(* C10.  Re-entrancy guard.  In the refreshing viewers at most one       *)
(* capture is in flight at any time, under every interleaving of timer   *)
(* ticks, scan-button presses, re-renders and capture completions.       *)

C10_AtMostOneRefresh ==
    viewer \in {"AIARViewer", "RealTimeARViewer", "CloudVisionARViewer"} => inFlight <= 1

-----------------------------------------------------------------------------
(* C11.  Latest snapshot is kept.  In RealTimeARViewer and               *)
(* CloudVisionARViewer the regions a refresh produced stay in force      *)
(* until the next refresh: a step that neither starts nor completes a    *)
(* refresh, and is not the first detection when the permission is        *)
(* granted, leaves the detected regions as they are; the busy flag       *)
(* changing runs no detection of its own.                                *)

C11_Step ==
    ( /\ viewer \in {"RealTimeARViewer", "CloudVisionARViewer"}
      /\ inFlight' = inFlight
      /\ permission' = permission ) =>
        detectedRegions' = detectedRegions

C11_LatestSnapshotKept == [][C11_Step]_vars

-----------------------------------------------------------------------------
(* C12.  Wholesale replacement.  The registry is empty or is exactly the *)
(* output of one detection cycle (first detection, analysis result or    *)
(* fallback), with no region of an earlier snapshot left in it; and a    *)
(* step that changes the registry is a detection cycle: it installs one  *)
(* whole output and is no move, scale change, reset or selection.        *)

\* What one detection cycle of viewer v can produce.
DetectorOutputs(v) ==
    CASE v = "SmartARViewer"       -> { Smart_zones }
      [] v = "AIARViewer"          -> { AI_simulateObjectDetection }
      [] v = "RealTimeARViewer"    ->
            { RealTime_simpleRegions }
                \cup { RealTime_detectObstaclesInImage(random) : random \in Draws }
      [] v = "CloudVisionARViewer" -> { Cloud_simulateObjectDetection(random) : random \in Draws }
      [] OTHER                     -> { }

C12_State ==
    detectedRegions = << >> \/ detectedRegions \in DetectorOutputs(viewer)

C12_Step ==
    detectedRegions' # detectedRegions =>
        /\ detectedRegions' \in DetectorOutputs(viewer)
        /\ furnitureScale' = furnitureScale
        /\ furniturePosition' = furniturePosition
        /\ selectedFurniture' = selectedFurniture

C12_WholesaleReplacement == []C12_State /\ [][C12_Step]_vars

\* An analysis result in force in RealTimeARViewer, with neither region of the first
\* detection left.
C12_Witness ==
    /\ viewer = "RealTimeARViewer"
    /\ mounted
    /\ inFlight = 0
    /\ \E random \in Draws : detectedRegions = RealTime_detectObstaclesInImage(random)
    /\ \A i \in 1..Len(detectedRegions), j \in 1..Len(RealTime_simpleRegions) :
            detectedRegions[i] # RealTime_simpleRegions[j]

-----------------------------------------------------------------------------
(* C13.  Timer cancellation on teardown.  At most one refresh interval   *)
(* is active at any time, every re-run of the scan effect having cleared *)
(* the interval of the run before; once the viewer is unmounted no       *)
(* interval is active and no step starts a refresh.                      *)

C13_State ==
    /\ Cardinality(intervals) <= 1
    /\ ~mounted => intervals = {}

C13_Step ==
    ~mounted => inFlight' <= inFlight

C13_TimerCancelled == []C13_State /\ [][C13_Step]_vars

\* RealTimeARViewer unmounted after the scan effect ran, re-ran on a change of the busy
\* flag and had its last interval cleared.
C13_Witness ==
    /\ viewer = "RealTimeARViewer"
    /\ ~mounted
    /\ permission
    /\ seenAnalyzing
    /\ intervalRef # 0
    /\ intervals = {}

-----------------------------------------------------------------------------
(* C14.  Clear regions are ignored for collision.  In RealTimeARViewer   *)
(* and CloudVisionARViewer, for every registry content and placement: a  *)
(* verdict fits = false comes with an obstacle region that the item's    *)
(* rect meets, never from clear regions alone whatever their confidence  *)
(* and overlap; collision flag, verdict and the reason of a non-fitting  *)
(* verdict are those of the registry without its clear regions; and a    *)
(* collision gives fits = false also when the item's center lies inside  *)
(* a clear region.                                                       *)

\* The regions of the current registry that are not clear.
NotClear ==
    LET keep == { i \in 1..Len(detectedRegions) : ~RegionOf(viewer, detectedRegions[i]).clear }
        nth[k \in 0..Len(detectedRegions)] ==
            IF k = 0 THEN << >>
            ELSE IF k \in keep THEN Append(nth[k - 1], detectedRegions[k]) ELSE nth[k - 1]
    IN  nth[Len(detectedRegions)]

\* The item's center lies inside a clear region.
CenterInClear ==
    \E i \in 1..Len(detectedRegions) :
        LET r == RegionOf(viewer, detectedRegions[i])
        IN  /\ r.clear
            /\ r.rect.left <= 2 * ScaleUnit * furniturePosition.x
            /\ 2 * ScaleUnit * furniturePosition.x <= r.rect.right
            /\ r.rect.top <= 2 * ScaleUnit * furniturePosition.y
            /\ 2 * ScaleUnit * furniturePosition.y <= r.rect.bottom

C14_ClearIgnored ==
    (viewer \in {"RealTimeARViewer", "CloudVisionARViewer"} /\ selectedFurniture # Null) =>
        /\ ~Fits => \E o \in Obstacles : Meet(PlacedRect, o.rect)
        /\ Collision = CollisionOf(viewer, selectedFurniture, furnitureScale,
                                   furniturePosition, NotClear)
        /\ Fits = FitsOf(viewer, selectedFurniture, roomDimensions, furnitureScale,
                         furniturePosition, NotClear, fits)
        /\ ~Fits => Reason = ReasonOf(viewer, selectedFurniture, furnitureScale,
                                      furniturePosition, NotClear)
        /\ Collision => ~Fits

\* An item whose center lies in a clear region, overlapped by an obstacle: not fitting.
C14_Witness ==
    /\ viewer = "RealTimeARViewer"
    /\ selectedFurniture # Null
    /\ CenterInClear
    /\ \E i \in 1..Len(detectedRegions) :
            LET r == RegionOf(viewer, detectedRegions[i])
            IN  r.clear /\ ProperlyOverlap(PlacedRect, r.rect)
    /\ Collision
    /\ ~Fits
    /\ Reason.text = "Obstacle detected"

-----------------------------------------------------------------------------
(* C15.  Reset.  In every viewer with resetPlacement, a reset returns    *)
(* position and scale to the placement the viewer has at mount, whatever *)
(* came before, and a second reset changes nothing.                      *)

C15_Step ==
    resetPlacement =>
        /\ furniturePosition' = initialPosition(viewer)
        /\ furnitureScale' = initialScale(viewer)

C15_ResetIsInitialPlacement == [][C15_Step]_vars

-----------------------------------------------------------------------------
(* C16.  Move is an absolute set without clamping.  A move puts the item *)
(* at exactly its target: the pointer coordinates of a drag, or one step *)
(* from the previous position in the direction of a move button, with no *)
(* clamping to any bounds; and it leaves the scale and the detected      *)
(* regions as they are.                                                  *)

\* One step of 10 from p in direction d, with no clamping.
StepFrom(p, d) ==
    CASE d = "left"  -> [p EXCEPT !.x = p.x - 10]
      [] d = "right" -> [p EXCEPT !.x = p.x + 10]
      [] d = "up"    -> [p EXCEPT !.y = p.y - 10]
      [] d = "down"  -> [p EXCEPT !.y = p.y + 10]

C16_State ==
    /\ viewer = "SimpleARViewer" =>
            \A d \in {"left", "right", "up", "down"} :
                Simple_moved(furniturePosition, d) = StepFrom(furniturePosition, d)
    /\ viewer = "CameraARViewer" =>
            \A d \in {"left", "right", "up", "down"} :
                Camera_moved(furniturePosition, d) = StepFrom(furniturePosition, d)

C16_Step ==
    /\ \A x \in PointerXs, y \in PointerYs :
            onPanResponderMove(x, y) => furniturePosition' = [x |-> x, y |-> y]
    /\ furniturePosition' # furniturePosition =>
            \/ ~mounted'
            \/ resetPlacement
            \/ furnitureScale' = furnitureScale /\ detectedRegions' = detectedRegions

C16_MoveAbsoluteUnclamped == []C16_State /\ [][C16_Step]_vars

-----------------------------------------------------------------------------
(* C17.  Room fit is independent of position.  In SimpleARViewer and     *)
(* CameraARViewer a moveFurniture step in any direction leaves the       *)
(* verdict as it was, for every item, room and scale.                    *)

C17_Step ==
    (\E d \in {"left", "right", "up", "down"} :
        Simple_moveFurniture(d) \/ Camera_moveFurniture(d)) =>
            Fits' = Fits

C17_FitIndependentOfPosition == [][C17_Step]_vars

\* SimpleARViewer with the sofa, fitting its room, moved to the room's left edge.
C17_Witness ==
    /\ viewer = "SimpleARViewer"
    /\ selectedFurniture.id = "sofa-1"
    /\ roomDimensions.width = 200
    /\ furnitureScale = ScaleUnit
    /\ furniturePosition.x = 0
    /\ Fits

-----------------------------------------------------------------------------
(* C18.  Scenario.  With the preset 'Dining Table' (160 x 75 x 90) and   *)
(* the room 160 x 240 x 100 the verdict is fits = true at the initial    *)
(* scale in SimpleARViewer and CameraARViewer and at the initial         *)
(* position in the 3-D ARViewer, and in the viewers with a scale control *)
(* it is fits = false whenever the scaled width exceeds 160.             *)

C18_DiningTableScenario ==
    ( /\ viewer \in RoomViewers \cup {"ARViewer"}
      /\ mounted
      /\ selectedFurniture = furniturePresets[2]
      /\ roomDimensions = [width |-> 160, height |-> 240, depth |-> 100] ) =>
        /\ (viewer \in RoomViewers /\ furnitureScale = initialScale(viewer)) => Fits
        /\ (viewer = "ARViewer" /\ furniturePosition = AR_initialPosition) => Fits
        /\ ( /\ viewer \in RoomViewers
             /\ selectedFurniture.width * furnitureScale > 160 * ScaleUnit ) => ~Fits

-----------------------------------------------------------------------------
(* C19.  Reasonable-size heuristic.  In SmartARViewer and ImageARViewer  *)
(* an item fits only if its scaled width is below 0.6 of the viewport    *)
(* width and its scaled height below 0.4 of the viewport height, also    *)
(* with no obstacle detected and the placement within bounds.            *)

C19_ReasonableSize ==
    ( /\ viewer \in {"SmartARViewer", "ImageARViewer"}
      /\ selectedFurniture # Null
      /\ Fits ) =>
        /\ 10 * selectedFurniture.width * furnitureScale < 6 * screenWidth * ScaleUnit
        /\ 10 * selectedFurniture.height * furnitureScale < 4 * screenHeight * ScaleUnit

-----------------------------------------------------------------------------
(* C20.  Custom dimension fallback.  createCustomFurniture builds the    *)
(* custom item from the entered texts, and an entry that is not numeric  *)
(* falls back to the default of its own field: 100 for width, 100 for    *)
(* height, 50 for depth.                                                 *)

FieldDefault(field) == IF field = "depth" THEN 50 ELSE 100

C20_Step ==
    (createCustomFurniture /\ showAR') =>
        /\ selectedFurniture'.id = "custom-1"
        /\ \A field \in Fields :
              LET entered == parseFloat(customDimensions[field])
              IN  /\ entered.nan => selectedFurniture'[field] = FieldDefault(field)
                  /\ (~entered.nan /\ entered.value # 0) =>
                        selectedFurniture'[field] = entered.value

C20_CustomDimensionFallback == [][C20_Step]_vars

-----------------------------------------------------------------------------
(* C29.  Positive dimensions.  Every item handed to a viewer has         *)
(* strictly positive width, height and depth: the presets, and every     *)
(* custom item createCustomFurniture builds from any entered texts,      *)
(* '0', negative numbers and non-numeric text included.                  *)

C29_PositiveDimensions ==
    /\ \A item \in Items : item.width > 0 /\ item.height > 0 /\ item.depth > 0
    /\ showAR =>
          /\ selectedFurniture.width > 0
          /\ selectedFurniture.height > 0
          /\ selectedFurniture.depth > 0

-----------------------------------------------------------------------------
(* C30.  App navigation invariant.  After any sequence of                *)
(* handleSelectFurniture and handleBack the AR view is shown exactly     *)
(* when an item is selected, furnitureImage is undefined whenever no     *)
(* item is selected, and a preset that gets selected, also after a       *)
(* custom item, has no image of an earlier selection.                    *)

C30_State ==
    /\ showAR <=> selectedFurniture # Null
    /\ selectedFurniture = Null => furnitureImage = Undefined
    /\ selectedFurniture \in Items => furnitureImage = Undefined

C30_Step ==
    (\E furniture \in Items : handleSelectFurniture(furniture)) =>
        (showAR' /\ furnitureImage' = Undefined)

C30_AppNavigation == []C30_State /\ [][C30_Step]_vars

\* A custom item is shown together with its image.
C30_Witness ==
    /\ showAR
    /\ selectedFurniture.id = "custom-1"
    /\ furnitureImage \in ImageUris

-----------------------------------------------------------------------------
(* C21.  Malformed regions are dropped.  A region whose width or height  *)
(* is negative never produces a collision verdict and never makes the    *)
(* fit evaluation fail: collision and verdict are those of the registry  *)
(* without its malformed regions, whose well-formed regions are checked  *)
(* as before.                                                            *)

WellFormed(r) ==
    LET rect == RegionOf(viewer, r).rect
    IN  rect.right >= rect.left /\ rect.bottom >= rect.top

-----------------------------------------------------------------------------
(* C22.  Degenerate rectangles never overlap.  A furniture rect of width *)
(* 0 or height 0 collides with nothing, and a region of width 0 or       *)
(* height 0 yields no collision wherever it lies, also inside the item:  *)
(* the collision is that of the registry without its degenerate regions. *)

Degenerate(rect) == rect.right = rect.left \/ rect.bottom = rect.top

NotDegenerate(r) == ~Degenerate(RegionOf(viewer, r).rect)

-----------------------------------------------------------------------------
(* C23.  Overlap symmetry.  The overlap test of checkCollision gives the *)
(* same result when the furniture rectangle and the region rectangle are *)
(* swapped, for every pair of rectangles: well-formed, touching,         *)
(* degenerate or malformed.                                              *)

C23_OverlapSymmetry ==
    (viewer \in RegionViewers /\ selectedFurniture # Null) =>
        \A i \in 1..Len(detectedRegions) :
            LET f == furnitureEdges(furniturePosition.x, furniturePosition.y,
                                    selectedFurniture.width * furnitureScale,
                                    selectedFurniture.height * furnitureScale)
                z == RegionOf(viewer, detectedRegions[i]).rect
            IN  overlaps(f, z) = overlaps(z, f)

\* The item's right edge lies on the left edge of a region, and the test says overlap.
C23_Witness ==
    /\ viewer \in RegionViewers
    /\ selectedFurniture # Null
    /\ \E i \in 1..Len(detectedRegions) :
          LET z == RegionOf(viewer, detectedRegions[i]).rect
          IN  /\ PlacedRect.right = z.left
              /\ PlacedRect.left < PlacedRect.right
              /\ overlaps(PlacedRect, z)

-----------------------------------------------------------------------------
(* C24.  3-D room check.  checkFit of FurnitureModels answers true only  *)
(* if the furniture box lies inside the room on all three axes: within   *)
(* the room's width around position.x, within its depth around           *)
(* position.z, and not below the floor nor taller than the room; an item *)
(* higher than the room fits at no position.  Lengths in half            *)
(* centimeters, a position step being 40.                                *)

C24_RoomCheck3D ==
    (viewer = "ARViewer" /\ selectedFurniture # Null /\ Fits) =>
        /\ 40 * furniturePosition.x - selectedFurniture.width >= - roomDimensions.width
        /\ 40 * furniturePosition.x + selectedFurniture.width <= roomDimensions.width
        /\ 40 * furniturePosition.z - selectedFurniture.depth >= - roomDimensions.depth
        /\ 40 * furniturePosition.z + selectedFurniture.depth <= roomDimensions.depth
        /\ furniturePosition.y >= 0
        /\ selectedFurniture.height <= roomDimensions.height

-----------------------------------------------------------------------------
(* C28.  Release alert follows the current verdict.  In SmartARViewer    *)
(* and RealTimeARViewer a release of a drag shows the obstacle alert     *)
(* exactly when the verdict for the placement at that moment is          *)
(* fits = false, after any moves, scale changes and refreshes: in every  *)
(* state the release handler would alert iff the item does not fit, and  *)
(* a release step records the alert iff it does not fit.                 *)

C28_State ==
    ( /\ viewer \in {"SmartARViewer", "RealTimeARViewer"}
      /\ mounted /\ permission ) =>
        (~mountFits <=> ~Fits)

C28_Step ==
    (onPanResponderRelease /\ viewer \in {"SmartARViewer", "RealTimeARViewer"}) =>
        (alertShown' <=> ~Fits)

C28_ReleaseAlert == []C28_State /\ [][C28_Step]_vars

-----------------------------------------------------------------------------
(* C25.  The busy flag is always released.  Provided the capture call    *)
(* settles, a refresh that started ends with the busy flag false,        *)
(* whether the capture succeeds, returns no photo or throws; and the     *)
(* mounted viewer then renders with the flag false, so that a later      *)
(* refresh request passes the guard.                                     *)

C25_BusyFlagReleased ==
    /\ isAnalyzing ~> ~isAnalyzing
    /\ (mounted /\ seenAnalyzing) ~> (~seenAnalyzing \/ ~mounted)

\* A refresh has been started and its capture has not yet settled.
C25_Witness ==
    /\ viewer \in RefreshViewers
    /\ mounted
    /\ isAnalyzing /\ seenAnalyzing
    /\ inFlight > 0

-----------------------------------------------------------------------------
(* C26.  Fallback on a failed refresh.  When the capture or the analysis *)
(* throws, the refresh installs the fallback snapshot as the registry    *)
(* (performSimpleDetection in RealTimeARViewer, simulateObjectDetection  *)
(* in CloudVisionARViewer), ends like any other refresh with the busy    *)
(* flag released, and the verdict is that of the fallback snapshot.      *)

C26_Step ==
    /\ (\E random \in Draws : RealTime_captureSettled("error", random)) =>
          /\ detectedRegions' = RealTime_simpleRegions
          /\ ~isAnalyzing' /\ inFlight' = inFlight - 1
          /\ Fits' = FitsOf(viewer, selectedFurniture, roomDimensions, furnitureScale,
                            furniturePosition, RealTime_simpleRegions, fits)
    /\ (\E random \in Draws : Cloud_captureSettled("error", random)) =>
          /\ \E random \in Draws :
                /\ detectedRegions' = Cloud_simulateObjectDetection(random)
                /\ Fits' = FitsOf(viewer, selectedFurniture, roomDimensions, furnitureScale,
                                  furniturePosition, Cloud_simulateObjectDetection(random), fits)
          /\ ~isAnalyzing' /\ inFlight' = inFlight - 1

C26_FallbackOnFailure == [][C26_Step]_vars

\* The fallback snapshot of RealTimeARViewer is the registry and no refresh is pending,
\* before the render that follows the end of the refresh.
C26_Witness ==
    /\ viewer = "RealTimeARViewer"
    /\ mounted
    /\ detectedRegions = RealTime_simpleRegions
    /\ ~isAnalyzing /\ seenAnalyzing
    /\ inFlight = 0

-----------------------------------------------------------------------------
(* C27.  No registry write after teardown.  Once the viewer is           *)
(* unmounted neither the detected regions nor the busy flag is updated   *)
(* again: a refresh in flight at unmount does not write its result.      *)

C27_Step ==
    ~mounted => (detectedRegions' = detectedRegions /\ isAnalyzing' = isAnalyzing)

=============================================================================
